---- MODULE Spec2Model ----
(***************************************************************************)
(* Model of the report pipeline of fabric-sharepoint-pipeline:             *)
(*   - generate_pdf_batch   (src/src/generate_powerbi_pdfs.py)  : Spec     *)
(*   - export_report_to_pdf (src/src/generate_powerbi_pdfs.py)  : SpecExport*)
(*   - generate_single_employee_link                                       *)
(*                          (src/src/generate_sharepoint_links.py): SpecLink*)
(*   - upload_pdfs_batch    (src/src/upload_to_sharepoint.py)   : SpecUpload*)
(*   - generate_employee_links                                             *)
(*                          (src/src/generate_sharepoint_links.py): SpecLinks*)
(*   - main.py run as a script (src/src/main.py)                 : SpecMain *)
(*   - send_bcp_notification (src/src/send_notification.py)    : SpecNotify *)
(*   - upload_csv_to_sharepoint, upload_log_to_sharepoint                  *)
(*                          (src/src/generate_sharepoint_links.py): SpecText *)
(*   - ensure_folder_exists (src/src/upload_to_sharepoint.py)   : SpecFolder*)
(* Python semantics are kept: a call that does not bind to the callee's    *)
(* signature raises TypeError, a name that no scope defines raises         *)
(* NameError, an exception leaves the function unless a handler encloses   *)
(* the statement.                                                          *)
(***************************************************************************)
EXTENDS Integers, Sequences, FiniteSets, TLC

\* ------------------------------------------------------------------ bounds
MaxItems == 3
MaxBatch == 3
MaxRetriesBound == 3

\* ------------------------------------------------- variables of the model
VARIABLES
    \* generate_pdf_batch: arguments
    values, batch_size, max_retries,
    \* the remote export service, per item: 0 = an export of the item never
    \* succeeds (its status stays "Running"), k >= 1 = an export of the item
    \* succeeds from pass k on (pass 1 is the first pass, pass k + 1 is retry k)
    remote,
    \* generate_pdf_batch: position of the calling thread, exception raised
    pc, exc,
    \* generate_pdf_batch: the pool of the pass and its futures
    submitted, fut, collected,
    \* generate_pdf_batch: locals
    pdf_dict, failed_items, retry_attempt, retry_batch_size,
    \* generate_pdf_batch: observations (passes run, time.sleep calls, log)
    passes, slept, summary,
    \* export_report_to_pdf: the remote's script, position, result, remote
    \* calls issued (POST ExportTo, GET status, GET file) and time.sleep calls
    x_script, x_pc, x_result, x_posts, x_polls, x_downloads, x_sleeps,
    \* generate_single_employee_link: argument, recursion argument, position,
    \* waits, remote calls, responses seen, returned record and flag
    l_max_retries, l_retry_count, l_pc, l_sleeps, l_lookups, l_links, l_resp,
    l_record, l_success,
    \* generate_single_employee_link: link.webUrl of the last createLink
    \* response answered 200/201 ("" before any)
    l_url,
    \* upload_pdfs_batch: arguments, position, futures, the pool's queue,
    \* PUTs issued per identifier, the document store, collected futures, returned lists
    u_ids, u_create_folder, u_batch_size, u_pc, u_fut, u_queue, u_puts,
    u_store, u_collected, successful, failed,
    \* generate_employee_links: arguments, position, submissions made,
    \* futures, calls of generate_single_employee_link per employee, collected
    \* futures, returned lists
    employee_list, g_batch_size, g_pc, g_submitted, g_fut, g_calls,
    g_collected, success_records, failed_records,
    \* main.py run as a script: command line, environment, position, and
    \* what the run did (exit status, exception, remote operations)
    m_args, m_env, m_pc, m_run,
    \* send_bcp_notification: arguments and channel behaviour, position,
    \* calls of get_graph_access_token, send_email_via_graph and
    \* send_email_via_smtp, channels that reported the message sent, result
    n_in, n_pc, n_token_calls, n_graph_calls, n_smtp_calls, n_delivered,
    n_result,
    \* upload_csv_to_sharepoint / upload_log_to_sharepoint: which of the two,
    \* argument max_retries, loop variable attempt, position, answers to the
    \* PUTs issued, time.sleep calls, result
    c_kind, c_max_retries, c_attempt, c_pc, c_resp, c_sleeps, c_result,
    \* ensure_folder_exists: depth of folder_path (its levels are 1..depth),
    \* levels that exist in the drive, position, loop index, levels a create
    \* request was sent for, folders created under a new name, result
    f_depth, f_store, f_pc, f_level, f_creates, f_renamed, f_result

bvars == <<values, batch_size, max_retries, remote, pc, exc, submitted, fut,
           collected, pdf_dict, failed_items, retry_attempt, retry_batch_size,
           passes, slept, summary>>

xvars == <<x_script, x_pc, x_result, x_posts, x_polls, x_downloads, x_sleeps>>

lvars == <<l_max_retries, l_retry_count, l_pc, l_sleeps, l_lookups, l_links,
           l_resp, l_record, l_success, l_url>>

uvars == <<u_ids, u_create_folder, u_batch_size, u_pc, u_fut, u_queue, u_puts,
           u_store, u_collected, successful, failed>>

gvars == <<employee_list, g_batch_size, g_pc, g_submitted, g_fut, g_calls,
           g_collected, success_records, failed_records>>

mvars == <<m_args, m_env, m_pc, m_run>>

nvars == <<n_in, n_pc, n_token_calls, n_graph_calls, n_smtp_calls,
           n_delivered, n_result>>

cvars == <<c_kind, c_max_retries, c_attempt, c_pc, c_resp, c_sleeps, c_result>>

fvars == <<f_depth, f_store, f_pc, f_level, f_creates, f_renamed, f_result>>

vars == <<bvars, xvars, lvars, uvars, gvars, mvars, nvars, cvars, fvars>>

\* ------------------------------------------------------ helper operators
Min(a, b) == IF a <= b THEN a ELSE b

Range(s) == {s[k] : k \in DOMAIN s}

\* ------------------------------------------ Python call and name binding
\* The parameters of export_report_to_pdf, in order.
ExportParams ==
    <<"workspace_id", "report_id", "parameter_name", "access_token",
      "max_retries", "retry_interval">>

\* The positional arguments generate_pdf_batch passes to export_report_to_pdf
\* through executor.submit (the same seven in the first pass and the retry).
ExportCallArgs ==
    <<"workspace_id", "report_id", "parameter_name", "value", "access_token",
      "30", "retry_interval">>

\* Names the body of export_report_to_pdf reads before its first request.
ExportBodyNames ==
    {"workspace_id", "report_id", "access_token", "parameter_name",
     "parameter_value"}

\* A positional call binds when it has no more arguments than parameters.
CallBinds(args, params) == Len(args) <= Len(params)

\* A name resolves when it is a parameter (module globals hold none of the
\* names in question).
NamesResolve(names, params) == names \subseteq Range(params)

\* Keyword parameters of concurrent.futures.ThreadPoolExecutor.
PoolParams == {"max_workers", "thread_name_prefix", "initializer", "initargs"}

FirstPoolKeyword == "max_workers"

RetryPoolKeyword == "max_retries"

\* Names bound in generate_pdf_batch when the summary is reached.
BatchLocals ==
    {"values", "pdf_dict", "failed_items", "total_items", "batch_size",
     "max_retries", "retry_attempt"}

SummaryNames == {"pdf", "failed_items", "total_items"}

\* ------------------------------------------------------ generate_pdf_batch
NotComputed == 0 - 1

NoSummary == [reported |-> FALSE, total |-> 0, success |-> 0, failed |-> 0,
              items |-> <<>>]

Futures == 1..Len(values)

Finished(s) == s \in {"exc", "ok", "none"}

Running == {i \in Futures : fut[i] = "running"}

Queued == {i \in Futures : fut[i] = "queued"}

\* What a worker's call of export_report_to_pdf for future i ends with:
\* "exc" an exception stored in the future, "none" the sentinel None,
\* "ok" the artifact.
WorkerOutcome(i) ==
    IF ~CallBinds(ExportCallArgs, ExportParams) THEN "exc"
    ELSE IF ~NamesResolve(ExportBodyNames, ExportParams) THEN "none"
    ELSE IF remote[values[i]] # 0 /\ remote[values[i]] <= passes THEN "ok"
    ELSE "none"

\* A pool that starts a thread for every queued task (no max_workers bound).
PoolHasFreeWorker_Unbounded == Cardinality(Running) >= 0

\* The pool runs at most max_workers = batch_size tasks at a time.
PoolHasFreeWorker == Cardinality(Running) < batch_size

\* The retry pool size.
RetryBatchSize(bs) == Min(1, bs \div 2)

\* The loop condition of the retry loop.
RetryCondition == failed_items # <<>> /\ retry_attempt <= max_retries

\* The remote's behaviours told apart: never, from the first pass, from the
\* first retry, from the last retry.
RemoteChoices(maxr) == {0, 1, 2, maxr + 1} \cap (0..(maxr + 1))

BInit ==
    /\ \E n \in 0..MaxItems : values = [k \in 1..n |-> k]
    /\ batch_size \in 1..MaxBatch
    /\ max_retries \in 0..MaxRetriesBound
    /\ remote \in [1..Len(values) -> RemoteChoices(max_retries)]
    /\ pc = "start"
    /\ exc = "none"
    /\ submitted = 0
    /\ fut = [i \in Futures |-> "unsubmitted"]
    /\ collected = {}
    /\ pdf_dict = {}
    /\ failed_items = <<>>
    /\ retry_attempt = 0
    /\ retry_batch_size = NotComputed
    /\ passes = 0
    /\ slept = 0
    /\ summary = NoSummary

\* Lines 99-105: the locals and the pool of the first pass.
FirstPool ==
    /\ pc = "start"
    /\ IF FirstPoolKeyword \in PoolParams
         THEN pc' = "submit" /\ passes' = 1 /\ exc' = exc
         ELSE pc' = "raised" /\ passes' = passes /\ exc' = "TypeError"
    /\ UNCHANGED <<values, batch_size, max_retries, remote, submitted, fut,
                   collected, pdf_dict, failed_items, retry_attempt,
                   retry_batch_size, slept, summary>>
    /\ UNCHANGED <<xvars, lvars, uvars, gvars, mvars, nvars, cvars, fvars>>

\* Lines 108-119: one executor.submit.
Submit ==
    /\ pc = "submit"
    /\ submitted < Len(values)
    /\ submitted' = submitted + 1
    /\ fut' = [fut EXCEPT ![submitted + 1] = "queued"]
    /\ UNCHANGED <<values, batch_size, max_retries, remote, pc, exc, collected,
                   pdf_dict, failed_items, retry_attempt, retry_batch_size,
                   passes, slept, summary>>
    /\ UNCHANGED <<xvars, lvars, uvars, gvars, mvars, nvars, cvars, fvars>>

\* Line 121: the submission loop is over, as_completed starts.
StartCollect ==
    /\ pc = "submit"
    /\ submitted = Len(values)
    /\ pc' = "collect"
    /\ UNCHANGED <<values, batch_size, max_retries, remote, exc, submitted, fut,
                   collected, pdf_dict, failed_items, retry_attempt,
                   retry_batch_size, passes, slept, summary>>
    /\ UNCHANGED <<xvars, lvars, uvars, gvars, mvars, nvars, cvars, fvars>>

\* A pool thread takes the oldest queued task.
WorkerStart(i) ==
    /\ pc \in {"submit", "collect"}
    /\ i \in Queued
    /\ \A j \in Queued : i <= j
    /\ PoolHasFreeWorker
    /\ fut' = [fut EXCEPT ![i] = "running"]
    /\ UNCHANGED <<values, batch_size, max_retries, remote, pc, exc, submitted,
                   collected, pdf_dict, failed_items, retry_attempt,
                   retry_batch_size, passes, slept, summary>>
    /\ UNCHANGED <<xvars, lvars, uvars, gvars, mvars, nvars, cvars, fvars>>

\* A worker that appends its own failure to failed_items.
WorkerFinish_WritesFailed(i) ==
    /\ pc \in {"submit", "collect"}
    /\ i \in Running
    /\ fut' = [fut EXCEPT ![i] = WorkerOutcome(i)]
    /\ failed_items' = IF WorkerOutcome(i) = "ok" THEN failed_items
                       ELSE Append(failed_items, values[i])
    /\ UNCHANGED <<values, batch_size, max_retries, remote, pc, exc, submitted,
                   collected, pdf_dict, retry_attempt, retry_batch_size, passes,
                   slept, summary>>
    /\ UNCHANGED <<xvars, lvars, uvars, gvars, mvars, nvars, cvars, fvars>>

\* The task ends: the call's result or exception is stored in the future.
WorkerFinish(i) ==
    /\ pc \in {"submit", "collect"}
    /\ i \in Running
    /\ fut' = [fut EXCEPT ![i] = WorkerOutcome(i)]
    /\ UNCHANGED <<values, batch_size, max_retries, remote, pc, exc, submitted,
                   collected, pdf_dict, failed_items, retry_attempt,
                   retry_batch_size, passes, slept, summary>>
    /\ UNCHANGED <<xvars, lvars, uvars, gvars, mvars, nvars, cvars, fvars>>

\* A collection that keeps a failure only when no later-submitted future was
\* collected before it.
Collect_InOrderOnly(i) ==
    /\ pc = "collect"
    /\ i \in Futures \ collected
    /\ Finished(fut[i])
    /\ collected' = collected \cup {i}
    /\ IF fut[i] = "ok"
         THEN pdf_dict' = pdf_dict \cup {values[i]}
              /\ failed_items' = failed_items
         ELSE pdf_dict' = pdf_dict
              /\ failed_items' = IF \E j \in collected : j > i
                                   THEN failed_items
                                   ELSE Append(failed_items, values[i])
    /\ UNCHANGED <<values, batch_size, max_retries, remote, pc, exc, submitted,
                   fut, retry_attempt, retry_batch_size, passes, slept, summary>>
    /\ UNCHANGED <<xvars, lvars, uvars, gvars, mvars, nvars, cvars, fvars>>

\* Lines 121-133: as_completed yields a finished future; its outcome is
\* recorded by the calling thread.
Collect(i) ==
    /\ pc = "collect"
    /\ i \in Futures \ collected
    /\ Finished(fut[i])
    /\ collected' = collected \cup {i}
    /\ IF fut[i] = "ok"
         THEN pdf_dict' = pdf_dict \cup {values[i]}
              /\ failed_items' = failed_items
         ELSE pdf_dict' = pdf_dict
              /\ failed_items' = Append(failed_items, values[i])
    /\ UNCHANGED <<values, batch_size, max_retries, remote, pc, exc, submitted,
                   fut, retry_attempt, retry_batch_size, passes, slept, summary>>
    /\ UNCHANGED <<xvars, lvars, uvars, gvars, mvars, nvars, cvars, fvars>>

\* Lines 134-136: every future was collected, the pool is shut down.
FirstPassDone ==
    /\ pc = "collect"
    /\ collected = Futures
    /\ pc' = "retry_check"
    /\ retry_attempt' = 1
    /\ UNCHANGED <<values, batch_size, max_retries, remote, exc, submitted, fut,
                   collected, pdf_dict, failed_items, retry_batch_size, passes,
                   slept, summary>>
    /\ UNCHANGED <<xvars, lvars, uvars, gvars, mvars, nvars, cvars, fvars>>

\* Lines 137-143: the loop condition holds; log, then time.sleep(retry_delay).
RetrySleep ==
    /\ pc = "retry_check"
    /\ RetryCondition
    /\ slept' = slept + 1
    /\ pc' = "retry_pool"
    /\ UNCHANGED <<values, batch_size, max_retries, remote, exc, submitted, fut,
                   collected, pdf_dict, failed_items, retry_attempt,
                   retry_batch_size, passes, summary>>
    /\ UNCHANGED <<xvars, lvars, uvars, gvars, mvars, nvars, cvars, fvars>>

\* Lines 146-150: the pool size of the retry pass and the pool's construction,
\* ThreadPoolExecutor(max_retries=retry_batch_size). The constructor has no
\* such keyword: the statement raises, no handler encloses it, and lines
\* 151-183 (resubmission and collection of the retry pass) are not reached.
RetryPool ==
    /\ pc = "retry_pool"
    /\ retry_batch_size' = RetryBatchSize(batch_size)
    /\ RetryPoolKeyword \notin PoolParams
    /\ pc' = "raised"
    /\ exc' = "TypeError"
    /\ UNCHANGED <<values, batch_size, max_retries, remote, submitted, fut,
                   collected, pdf_dict, failed_items, retry_attempt, passes,
                   slept, summary>>
    /\ UNCHANGED <<xvars, lvars, uvars, gvars, mvars, nvars, cvars, fvars>>

\* What a call that reaches the end of the body hands its caller: the body
\* (lines 99-196) holds no return statement.
BatchReturnValue == "None"

\* Line 137 (condition false) and lines 185-196: the summary.
Summary ==
    /\ pc = "retry_check"
    /\ ~RetryCondition
    /\ IF SummaryNames \subseteq BatchLocals
         THEN /\ summary' = [reported |-> TRUE, total |-> Len(values),
                             success |-> Cardinality(pdf_dict),
                             failed |-> Len(failed_items),
                             items |-> failed_items]
              /\ pc' = "returned"
              /\ exc' = exc
         ELSE /\ summary' = summary
              /\ pc' = "raised"
              /\ exc' = "NameError"
    /\ UNCHANGED <<values, batch_size, max_retries, remote, submitted, fut,
                   collected, pdf_dict, failed_items, retry_attempt,
                   retry_batch_size, passes, slept>>
    /\ UNCHANGED <<xvars, lvars, uvars, gvars, mvars, nvars, cvars, fvars>>

BNext ==
    \/ FirstPool
    \/ Submit
    \/ StartCollect
    \/ \E i \in Futures : WorkerStart(i)
    \/ \E i \in Futures : WorkerFinish(i)
    \/ \E i \in Futures : Collect(i)
    \/ FirstPassDone
    \/ RetrySleep
    \/ RetryPool
    \/ Summary


BIdle ==
    /\ values = <<>>
    /\ batch_size = 1
    /\ max_retries = 0
    /\ remote = <<>>
    /\ pc = "idle"
    /\ exc = "none"
    /\ submitted = 0
    /\ fut = <<>>
    /\ collected = {}
    /\ pdf_dict = {}
    /\ failed_items = <<>>
    /\ retry_attempt = 0
    /\ retry_batch_size = NotComputed
    /\ passes = 0
    /\ slept = 0
    /\ summary = NoSummary

\* ---------------------------------------------------- export_report_to_pdf
MaxScript == 3

\* The default of the parameter max_retries (the poll cap); generate_pdf_batch
\* passes the same number.
ExportPollCap == 30

\* What one status poll can be answered: a status value in a 200/202
\* response, or a response whose status code is neither ("http_error").
PollAnswers == {"Running", "NotStarted", "Succeeded", "Failed", "http_error"}

ScriptsOfLen(n) == [1..n -> PollAnswers]

Scripts ==
    [submit : {200, 500}, has_id : BOOLEAN,
     statuses : UNION {ScriptsOfLen(n) : n \in 0..MaxScript},
     file : {200, 404}, cap : {1, 2, ExportPollCap}]

\* The answer to the k-th status poll: the script's, and "Running" once the
\* script is used up.
PollAnswer(script, k) ==
    IF k <= Len(script.statuses) THEN script.statuses[k] ELSE "Running"

ExportOutcome(result, posts, polls, downloads, sleeps) ==
    [result |-> result, posts |-> posts, polls |-> polls,
     downloads |-> downloads, sleeps |-> sleeps]

\* Lines 60-93: the poll loop, from retry_count with polls status requests
\* issued so far.
RECURSIVE PollLoop(_, _, _)
PollLoop(script, retry_count, polls) ==
    IF ~(retry_count < script.cap)
      THEN ExportOutcome("none", 1, polls, 0, retry_count)
      ELSE LET status == PollAnswer(script, polls + 1) IN
           IF status = "http_error"
             THEN ExportOutcome("none", 1, polls + 1, 0, retry_count)
           ELSE IF status = "Succeeded"
             THEN IF script.file = 200
                    THEN ExportOutcome("pdf", 1, polls + 1, 1, retry_count)
                    ELSE ExportOutcome("none", 1, polls + 1, 1, retry_count)
           ELSE IF status \in {"Running", "NotStarted"}
             THEN PollLoop(script, retry_count + 1, polls + 1)
           ELSE ExportOutcome("none", 1, polls + 1, 0, retry_count)

\* Lines 46-93: the submission, the job id, the poll loop.
ExportRequests(script) ==
    IF script.submit # 200 THEN ExportOutcome("none", 1, 0, 0, 0)
    ELSE IF ~script.has_id THEN ExportOutcome("none", 1, 0, 0, 0)
    ELSE PollLoop(script, 0, 0)

\* Lines 28-96: the body under its try. Building export_body (lines 36-43)
\* reads parameter_value; a NameError there is caught at line 94 and the
\* function returns None before any request.
ExportBody(script) ==
    IF ~NamesResolve(ExportBodyNames, ExportParams)
      THEN ExportOutcome("none", 0, 0, 0, 0)
      ELSE ExportRequests(script)

XInit ==
    /\ x_script \in Scripts
    /\ x_pc = "called"
    /\ x_result = "pending"
    /\ x_posts = 0
    /\ x_polls = 0
    /\ x_downloads = 0
    /\ x_sleeps = 0

XIdle ==
    /\ x_script = [submit |-> 200, has_id |-> TRUE, statuses |-> <<>>,
                   file |-> 200, cap |-> ExportPollCap]
    /\ x_pc = "idle"
    /\ x_result = "pending"
    /\ x_posts = 0
    /\ x_polls = 0
    /\ x_downloads = 0
    /\ x_sleeps = 0

\* One call export_report_to_pdf(workspace_id, report_id, parameter_name,
\* access_token, max_retries, retry_interval), to its return.
ExportCall ==
    /\ x_pc = "called"
    /\ LET o == ExportBody(x_script) IN
         /\ x_result' = o.result
         /\ x_posts' = o.posts
         /\ x_polls' = o.polls
         /\ x_downloads' = o.downloads
         /\ x_sleeps' = o.sleeps
    /\ x_pc' = "returned"
    /\ UNCHANGED x_script
    /\ UNCHANGED <<bvars, lvars, uvars, gvars, mvars, nvars, cvars, fvars>>

XNext == ExportCall

\* ------------------------------------------- generate_single_employee_link
MaxLinkRetries == 3

\* 2 ** n
RECURSIVE Pow2(_)
Pow2(n) == IF n = 0 THEN 1 ELSE 2 * Pow2(n - 1)

\* A linear backoff, 2 * retry_count, in place of 2 ** retry_count.
WaitTime_Linear(retry_count) == 2 * retry_count

\* The wait before the retry that follows a 429 at retry_count.
WaitTime(retry_count) == Pow2(retry_count)

\* A retry test that allows one retry more.
MayRetry_OneMore(retry_count, maxr) == retry_count <= maxr

\* Whether a 429 at retry_count is retried.
MayRetry(retry_count, maxr) == retry_count < maxr

\* Answers to the file lookup (GET) and to createLink (POST): a status
\* code, or "exc" when the request raises.
LookupAnswers == {"200", "429", "404", "403", "exc"}

LinkAnswers == {"200", "201", "429", "500", "exc"}

NoRecord == [sharepoint_link |-> "", status |-> ""]

FailedRecord(link) == [sharepoint_link |-> link, status |-> "Failed"]

\* link.webUrl values a createLink response can carry.
WebUrls == {"https://sp/u1", "https://sp/u2"}

\* A record that keeps a fixed text in place of the response's webUrl.
SuccessRecord_FixedLink(url) ==
    [sharepoint_link |-> "Success", status |-> "Success"]

\* Lines 93-102: the record of a created link.
SuccessRecord(url) == [sharepoint_link |-> url, status |-> "Success"]

LInit ==
    /\ l_max_retries \in 0..MaxLinkRetries
    /\ l_retry_count = 0
    /\ l_pc = "lookup"
    /\ l_sleeps = <<>>
    /\ l_lookups = 0
    /\ l_links = 0
    /\ l_resp = <<>>
    /\ l_record = NoRecord
    /\ l_success = FALSE
    /\ l_url = ""

LIdle ==
    /\ l_max_retries = 0
    /\ l_retry_count = 0
    /\ l_pc = "idle"
    /\ l_sleeps = <<>>
    /\ l_lookups = 0
    /\ l_links = 0
    /\ l_resp = <<>>
    /\ l_record = NoRecord
    /\ l_success = FALSE
    /\ l_url = ""

\* Lines 39-53 and 76-91: a 429. Below max_retries: time.sleep(2 **
\* retry_count), then the function calls itself with retry_count + 1 and
\* returns what that call returns; otherwise the Throttled record.
Throttled ==
    IF MayRetry(l_retry_count, l_max_retries)
      THEN /\ l_sleeps' = Append(l_sleeps, WaitTime(l_retry_count))
           /\ l_retry_count' = l_retry_count + 1
           /\ l_pc' = "lookup"
           /\ UNCHANGED <<l_record, l_success>>
      ELSE /\ l_record' = FailedRecord("Throttled")
           /\ l_success' = FALSE
           /\ l_pc' = "returned"
           /\ UNCHANGED <<l_sleeps, l_retry_count>>

LinkReturn(record, success) ==
    /\ l_record' = record
    /\ l_success' = success
    /\ l_pc' = "returned"
    /\ UNCHANGED <<l_sleeps, l_retry_count>>

\* A lookup that takes every answered request for a found file.
LookupFound_AnyStatus(code) == code # "exc"

\* Line 55: the file exists when the lookup is answered 200.
LookupFound(code) == code = "200"

\* Lines 36-66: the file lookup and its answer.
LinkLookup(code) ==
    /\ l_pc = "lookup"
    /\ l_lookups' = l_lookups + 1
    /\ l_resp' = Append(l_resp, code)
    /\ IF code = "exc" THEN LinkReturn(FailedRecord("Failed"), FALSE)
       ELSE IF code = "429" THEN Throttled
       ELSE IF ~LookupFound(code)
         THEN LinkReturn(FailedRecord("File Not Found"), FALSE)
       ELSE /\ l_pc' = "link"
            /\ UNCHANGED <<l_sleeps, l_retry_count, l_record, l_success>>
    /\ UNCHANGED <<l_max_retries, l_links, l_url>>
    /\ UNCHANGED <<bvars, xvars, uvars, gvars, mvars, nvars, cvars, fvars>>

\* Lines 68-111: the createLink request and its answer.
LinkCreate(code) ==
    /\ l_pc = "link"
    /\ l_links' = l_links + 1
    /\ l_resp' = Append(l_resp, code)
    /\ IF code = "exc"
         THEN LinkReturn(FailedRecord("Failed"), FALSE) /\ l_url' = l_url
       ELSE IF code = "429" THEN Throttled /\ l_url' = l_url
       ELSE IF code \in {"200", "201"}
         THEN \E url \in WebUrls :
                 /\ l_url' = url
                 /\ LinkReturn(SuccessRecord(url), TRUE)
       ELSE LinkReturn(FailedRecord("Failed"), FALSE) /\ l_url' = l_url
    /\ UNCHANGED <<l_max_retries, l_lookups>>
    /\ UNCHANGED <<bvars, xvars, uvars, gvars, mvars, nvars, cvars, fvars>>

LNext ==
    \/ \E code \in LookupAnswers : LinkLookup(code)
    \/ \E code \in LinkAnswers : LinkCreate(code)

\* -------------------------------------------------------- upload_pdfs_batch
MaxUploadIds == 2
MaxUploadBatch == 2

\* Strings are sequences of tokens; "report_", ".pdf" and ".PDF" are the
\* substrings the code tests for or replaces, the others are plain text.
IdDomain ==
    {<<"a">>, <<"a", ".pdf">>, <<"a", ".PDF">>, <<"report_", "a">>,
     <<"report_", "a", ".pdf">>, <<"b">>, <<"b", ".pdf">>, <<"a", "b">>}

BaseFolder == <<"Base">>

\* str.endswith(tok)
EndsWith(s, tok) == Len(s) > 0 /\ s[Len(s)] = tok

\* str.lower()
Lower(s) == [k \in DOMAIN s |-> IF s[k] = ".PDF" THEN ".pdf" ELSE s[k]]

\* str.replace(tok, '')
Remove(s, tok) == LET Keep(t) == t # tok IN SelectSeq(s, Keep)

\* Lines 238-241.
FileName(identifier) ==
    IF ~EndsWith(identifier, ".pdf") THEN identifier \o <<".pdf">>
    ELSE identifier

\* Line 244.
CleanIdentifier(identifier) == Remove(Remove(identifier, "report_"), ".pdf")

\* Lines 243-251: the folder (path segments) and the file name handed to
\* upload_pdf_stream_to_sharepoint.
FolderPath(identifier, create_folder) ==
    IF create_folder
      THEN <<BaseFolder, <<"report_">> \o CleanIdentifier(identifier)>>
      ELSE <<BaseFolder>>

FinalFileName(identifier, create_folder) ==
    IF create_folder
      THEN <<"report_">> \o CleanIdentifier(identifier) \o <<".pdf">>
      ELSE FileName(identifier)

\* upload_pdf_stream_to_sharepoint, lines 164-165.
StreamFileName(file_name) ==
    IF ~EndsWith(Lower(file_name), ".pdf") THEN file_name \o <<".pdf">>
    ELSE file_name

\* upload_pdf_stream_to_sharepoint, lines 162-171: the path of the PUT.
UploadPath(identifier, create_folder) ==
    [folder |-> FolderPath(identifier, create_folder),
     file |-> StreamFileName(FinalFileName(identifier, create_folder))]

\* What one upload_pdf_stream_to_sharepoint call can end with:
\* ensure_folder_exists returned False (no PUT), the PUT was answered
\* 200/201, the PUT was answered otherwise.
UploadOutcomes(create_folder) ==
    IF create_folder THEN {"folder_fail", "put_ok", "put_fail"}
    ELSE {"put_ok", "put_fail"}

URunning == {id \in u_ids : u_fut[id] = "running"}

\* ThreadPoolExecutor(max_workers=batch_size), line 234.
UploadPoolHasFreeWorker == Cardinality(URunning) < u_batch_size

\* A PUT replaces what the path held.
StoreAfterPut(store, path, id) ==
    {o \in store : o.path # path} \cup {[path |-> path, id |-> id]}

UInit ==
    /\ u_ids \in {S \in SUBSET IdDomain : Cardinality(S) <= MaxUploadIds}
    /\ u_create_folder \in BOOLEAN
    /\ u_batch_size \in 1..MaxUploadBatch
    /\ u_pc = "submit"
    /\ u_fut = [id \in u_ids |-> "unsubmitted"]
    /\ u_queue = <<>>
    /\ u_puts = [id \in u_ids |-> 0]
    /\ u_store = {}
    /\ u_collected = {}
    /\ successful = <<>>
    /\ failed = <<>>

UIdle ==
    /\ u_ids = {}
    /\ u_create_folder = FALSE
    /\ u_batch_size = 1
    /\ u_pc = "idle"
    /\ u_fut = <<>>
    /\ u_queue = <<>>
    /\ u_puts = <<>>
    /\ u_store = {}
    /\ u_collected = {}
    /\ successful = <<>>
    /\ failed = <<>>

\* Lines 237-262: one iteration of the submission loop.
UploadSubmit(id) ==
    /\ u_pc = "submit"
    /\ u_fut[id] = "unsubmitted"
    /\ u_fut' = [u_fut EXCEPT ![id] = "queued"]
    /\ u_queue' = Append(u_queue, id)
    /\ UNCHANGED <<u_ids, u_create_folder, u_batch_size, u_pc, u_puts, u_store,
                   u_collected, successful, failed>>
    /\ UNCHANGED <<bvars, xvars, lvars, gvars, mvars, nvars, cvars, fvars>>

\* Line 263: the submission loop is over, as_completed starts.
UploadStartCollect ==
    /\ u_pc = "submit"
    /\ \A id \in u_ids : u_fut[id] # "unsubmitted"
    /\ u_pc' = "collect"
    /\ UNCHANGED <<u_ids, u_create_folder, u_batch_size, u_fut, u_queue, u_puts,
                   u_store, u_collected, successful, failed>>
    /\ UNCHANGED <<bvars, xvars, lvars, gvars, mvars, nvars, cvars, fvars>>

\* A pool thread takes the oldest queued upload.
UploadWorkerStart ==
    /\ u_pc \in {"submit", "collect"}
    /\ u_queue # <<>>
    /\ UploadPoolHasFreeWorker
    /\ u_fut' = [u_fut EXCEPT ![Head(u_queue)] = "running"]
    /\ u_queue' = Tail(u_queue)
    /\ UNCHANGED <<u_ids, u_create_folder, u_batch_size, u_pc, u_puts, u_store,
                   u_collected, successful, failed>>
    /\ UNCHANGED <<bvars, xvars, lvars, gvars, mvars, nvars, cvars, fvars>>

\* upload_pdf_stream_to_sharepoint, lines 151-185, for one identifier.
UploadWorkerFinish(id, outcome) ==
    /\ u_pc \in {"submit", "collect"}
    /\ u_fut[id] = "running"
    /\ outcome \in UploadOutcomes(u_create_folder)
    /\ u_fut' = [u_fut EXCEPT ![id] = IF outcome = "put_ok" THEN "true"
                                      ELSE "false"]
    /\ u_puts' = [u_puts EXCEPT ![id] = IF outcome = "folder_fail" THEN @
                                        ELSE @ + 1]
    /\ u_store' = IF outcome = "put_ok"
                    THEN StoreAfterPut(u_store,
                                       UploadPath(id, u_create_folder), id)
                    ELSE u_store
    /\ UNCHANGED <<u_ids, u_create_folder, u_batch_size, u_pc, u_queue,
                   u_collected, successful, failed>>
    /\ UNCHANGED <<bvars, xvars, lvars, gvars, mvars, nvars, cvars, fvars>>

\* A collection that queues a failed upload once more.
UploadCollect_Requeues(id) ==
    /\ u_pc = "collect"
    /\ id \in u_ids \ u_collected
    /\ u_fut[id] \in {"true", "false"}
    /\ IF u_fut[id] = "false" /\ u_puts[id] < 2
         THEN /\ u_fut' = [u_fut EXCEPT ![id] = "queued"]
              /\ u_queue' = Append(u_queue, id)
              /\ UNCHANGED <<u_collected, successful, failed>>
         ELSE /\ u_collected' = u_collected \cup {id}
              /\ UNCHANGED <<u_fut, u_queue>>
              /\ IF u_fut[id] = "true"
                   THEN successful' = Append(successful, id) /\ failed' = failed
                   ELSE failed' = Append(failed, id) /\ successful' = successful
    /\ UNCHANGED <<u_ids, u_create_folder, u_batch_size, u_pc, u_puts, u_store>>
    /\ UNCHANGED <<bvars, xvars, lvars, gvars, mvars, nvars, cvars, fvars>>

\* Lines 263-272: as_completed yields a finished future.
UploadCollect(id) ==
    /\ u_pc = "collect"
    /\ id \in u_ids \ u_collected
    /\ u_fut[id] \in {"true", "false"}
    /\ u_collected' = u_collected \cup {id}
    /\ IF u_fut[id] = "true"
         THEN successful' = Append(successful, id) /\ failed' = failed
         ELSE failed' = Append(failed, id) /\ successful' = successful
    /\ UNCHANGED <<u_ids, u_create_folder, u_batch_size, u_pc, u_fut, u_queue,
                   u_puts, u_store>>
    /\ UNCHANGED <<bvars, xvars, lvars, gvars, mvars, nvars, cvars, fvars>>

\* Lines 274-276: return successful, failed.
UploadReturn ==
    /\ u_pc = "collect"
    /\ u_collected = u_ids
    /\ u_pc' = "returned"
    /\ UNCHANGED <<u_ids, u_create_folder, u_batch_size, u_fut, u_queue, u_puts,
                   u_store, u_collected, successful, failed>>
    /\ UNCHANGED <<bvars, xvars, lvars, gvars, mvars, nvars, cvars, fvars>>

UNext ==
    \/ \E id \in u_ids : UploadSubmit(id)
    \/ UploadStartCollect
    \/ UploadWorkerStart
    \/ \E id \in u_ids, outcome \in {"folder_fail", "put_ok", "put_fail"} :
          UploadWorkerFinish(id, outcome)
    \/ \E id \in u_ids : UploadCollect(id)
    \/ UploadReturn

\* -------------------------------------------------- generate_employee_links
MaxEmployees == 3
MaxLinkBatch == 2

\* Line 127: the cap of min(batch_size, 15).
LinkPoolCap == 15

\* Line 127.
SafeBatchSize(bs) == Min(bs, LinkPoolCap)

\* What a call of generate_single_employee_link returns (the link of its
\* record): a created link, 'Throttled' after the last 429, 'File Not Found',
\* 'Failed'.
LinkResults == {"Success", "Throttled", "File Not Found", "Failed"}

\* The (record, success) pair of a result, the record tagged with the
\* employee it was made for.
LinkResultRecord(e, result) ==
    IF result = "Success"
      THEN [employee |-> e, sharepoint_link |-> "webUrl", status |-> "Success"]
      ELSE [employee |-> e, sharepoint_link |-> result, status |-> "Failed"]

LinkResultFlag(result) == result = "Success"

Employees == 1..Len(employee_list)

GRunning == {e \in Employees : g_fut[e] = "running"}

GQueued == {e \in Employees : g_fut[e] = "queued"}

\* A pool that starts a thread for every queued task.
LinkPoolHasFreeWorker_Unbounded == Cardinality(GRunning) >= 0

\* ThreadPoolExecutor(max_workers=safe_batch_size), line 134.
LinkPoolHasFreeWorker == Cardinality(GRunning) < SafeBatchSize(g_batch_size)

GInit ==
    /\ \E n \in 0..MaxEmployees : employee_list = [k \in 1..n |-> k]
    /\ g_batch_size \in (1..MaxLinkBatch) \cup {LinkPoolCap + 1}
    /\ g_pc = "submit"
    /\ g_submitted = 0
    /\ g_fut = [e \in Employees |-> "unsubmitted"]
    /\ g_calls = [e \in Employees |-> 0]
    /\ g_collected = {}
    /\ success_records = <<>>
    /\ failed_records = <<>>

GIdle ==
    /\ employee_list = <<>>
    /\ g_batch_size = 1
    /\ g_pc = "idle"
    /\ g_submitted = 0
    /\ g_fut = <<>>
    /\ g_calls = <<>>
    /\ g_collected = {}
    /\ success_records = <<>>
    /\ failed_records = <<>>

\* Lines 137-146: one executor.submit, in list order.
LinksSubmit ==
    /\ g_pc = "submit"
    /\ g_submitted < Len(employee_list)
    /\ g_submitted' = g_submitted + 1
    /\ g_fut' = [g_fut EXCEPT ![g_submitted + 1] = "queued"]
    /\ UNCHANGED <<employee_list, g_batch_size, g_pc, g_calls, g_collected,
                   success_records, failed_records>>
    /\ UNCHANGED <<bvars, xvars, lvars, uvars, mvars, nvars, cvars, fvars>>

\* Lines 148-150: the submission loop is over, as_completed starts.
LinksStartCollect ==
    /\ g_pc = "submit"
    /\ g_submitted = Len(employee_list)
    /\ g_pc' = "collect"
    /\ UNCHANGED <<employee_list, g_batch_size, g_submitted, g_fut, g_calls,
                   g_collected, success_records, failed_records>>
    /\ UNCHANGED <<bvars, xvars, lvars, uvars, mvars, nvars, cvars, fvars>>

\* A pool thread takes the oldest queued task and calls
\* generate_single_employee_link for its employee.
LinksWorkerStart(e) ==
    /\ g_pc \in {"submit", "collect"}
    /\ e \in GQueued
    /\ \A j \in GQueued : e <= j
    /\ LinkPoolHasFreeWorker
    /\ g_fut' = [g_fut EXCEPT ![e] = "running"]
    /\ g_calls' = [g_calls EXCEPT ![e] = @ + 1]
    /\ UNCHANGED <<employee_list, g_batch_size, g_pc, g_submitted, g_collected,
                   success_records, failed_records>>
    /\ UNCHANGED <<bvars, xvars, lvars, uvars, mvars, nvars, cvars, fvars>>

\* generate_single_employee_link returns (its own retries included): the
\* pair is stored in the future.
LinksWorkerFinish(e, result) ==
    /\ g_pc \in {"submit", "collect"}
    /\ e \in GRunning
    /\ result \in LinkResults
    /\ g_fut' = [g_fut EXCEPT ![e] = result]
    /\ UNCHANGED <<employee_list, g_batch_size, g_pc, g_submitted, g_calls,
                   g_collected, success_records, failed_records>>
    /\ UNCHANGED <<bvars, xvars, lvars, uvars, mvars, nvars, cvars, fvars>>

\* A collection that hands a throttled employee back to the pool.
LinksCollect_Resubmits(e) ==
    /\ g_pc = "collect"
    /\ e \in Employees \ g_collected
    /\ g_fut[e] \in LinkResults
    /\ IF g_fut[e] = "Throttled" /\ g_calls[e] < 2
         THEN /\ g_fut' = [g_fut EXCEPT ![e] = "queued"]
              /\ UNCHANGED <<g_collected, success_records, failed_records>>
         ELSE /\ g_collected' = g_collected \cup {e}
              /\ g_fut' = g_fut
              /\ IF LinkResultFlag(g_fut[e])
                   THEN /\ success_records' =
                              Append(success_records,
                                     LinkResultRecord(e, g_fut[e]))
                        /\ failed_records' = failed_records
                   ELSE /\ failed_records' =
                              Append(failed_records,
                                     LinkResultRecord(e, g_fut[e]))
                        /\ success_records' = success_records
    /\ UNCHANGED <<employee_list, g_batch_size, g_pc, g_submitted, g_calls>>
    /\ UNCHANGED <<bvars, xvars, lvars, uvars, mvars, nvars, cvars, fvars>>

\* Lines 150-157: as_completed yields a finished future; its record goes to
\* success_records or failed_records. (future.result() does not raise for an
\* employee that is a dict: generate_single_employee_link catches every
\* Exception, so lines 158-166 are not reached.)
LinksCollect(e) ==
    /\ g_pc = "collect"
    /\ e \in Employees \ g_collected
    /\ g_fut[e] \in LinkResults
    /\ g_collected' = g_collected \cup {e}
    /\ IF LinkResultFlag(g_fut[e])
         THEN /\ success_records' =
                    Append(success_records, LinkResultRecord(e, g_fut[e]))
              /\ failed_records' = failed_records
         ELSE /\ failed_records' =
                    Append(failed_records, LinkResultRecord(e, g_fut[e]))
              /\ success_records' = success_records
    /\ UNCHANGED <<employee_list, g_batch_size, g_pc, g_submitted, g_fut,
                   g_calls>>
    /\ UNCHANGED <<bvars, xvars, lvars, uvars, mvars, nvars, cvars, fvars>>

\* Lines 171-172: return success_records, failed_records.
LinksReturn ==
    /\ g_pc = "collect"
    /\ g_collected = Employees
    /\ g_pc' = "returned"
    /\ UNCHANGED <<employee_list, g_batch_size, g_submitted, g_fut, g_calls,
                   g_collected, success_records, failed_records>>
    /\ UNCHANGED <<bvars, xvars, lvars, uvars, mvars, nvars, cvars, fvars>>

GNext ==
    \/ LinksSubmit
    \/ LinksStartCollect
    \/ \E e \in Employees : LinksWorkerStart(e)
    \/ \E e \in Employees, result \in LinkResults : LinksWorkerFinish(e, result)
    \/ \E e \in Employees : LinksCollect(e)
    \/ LinksReturn

\* ------------------------------------------------------------------ main.py
MaxFunctions == 2
MaxEmployeeRows == 2

\* Lines 12-31: the names main.py imports from the modules of the repository,
\* in the order of the import statements.
MainImports ==
    <<<<"query_fabric_lakehouse", "get_functions_list">>,
      <<"query_fabric_lakehouse", "get_employees_list">>,
      <<"query_fabric_lakehouse", "get_fabric_data">>,
      <<"generate_powerbi_pdfs", "get_powerbi_access_token">>,
      <<"generate_powerbi_pdfs", "generate_pdf_batch">>,
      <<"upload_to_sharepoint", "get_sharepoint_access_token">>,
      <<"upload_to_sharepoint", "get_site_and_drive_id">>,
      <<"upload_to_sharepoint", "upload_pdfs_batch">>,
      <<"upload_to_sharepoint", "upload_text_content_to_sharepoint">>,
      <<"generate_sharepoint_links", "generate_employee_links">>,
      <<"generate_sharepoint_links", "create_csv_content">>,
      <<"generate_sharepoint_links", "upload_csv_to_sharepoint">>,
      <<"generate_sharepoint_links", "create_link_generation_log">>,
      <<"generate_sharepoint_links", "upload_log_to_sharepoint">>,
      <<"send_notification", "send_notification">>>>

\* The functions each module defines.
ModuleDefines ==
    {<<"query_fabric_lakehouse", "get_fabric_connection">>,
     <<"query_fabric_lakehouse", "execute_query">>,
     <<"query_fabric_lakehouse", "get_areas_list">>,
     <<"query_fabric_lakehouse", "get_specialised_carers_list">>,
     <<"query_fabric_lakehouse", "get_salesforce_data">>,
     <<"generate_powerbi_pdfs", "get_powerbi_access_token">>,
     <<"generate_powerbi_pdfs", "export_report_to_pdf">>,
     <<"generate_powerbi_pdfs", "generate_pdf_batch">>,
     <<"upload_to_sharepoint", "get_sharepoint_access_token">>,
     <<"upload_to_sharepoint", "get_site_and_drive_id">>,
     <<"upload_to_sharepoint", "ensure_folder_exists">>,
     <<"upload_to_sharepoint", "upload_pdf_stream_to_sharepoint">>,
     <<"upload_to_sharepoint", "upload_text_content_to_sharepoint">>,
     <<"upload_to_sharepoint", "upload_pdfs_batch">>,
     <<"upload_to_sharepoint", "generate_shareable_link">>,
     <<"generate_sharepoint_links", "generate_single_employee_link">>,
     <<"generate_sharepoint_links", "generate_employee_links">>,
     <<"generate_sharepoint_links", "create_csv_content">>,
     <<"generate_sharepoint_links", "upload_csv_to_sharepoint">>,
     <<"generate_sharepoint_links", "create_link_generation_log">>,
     <<"generate_sharepoint_links", "upload_log_to_sharepoint">>,
     <<"send_notification", "get_graph_access_token">>,
     <<"send_notification", "create_email_html_body">>,
     <<"send_notification", "send_email_via_smtp">>,
     <<"send_notification", "send_email_via_graph">>,
     <<"send_notification", "send_bcp_notification">>}

\* "from module import name" raises ImportError when the module does not
\* define the name.
ImportsResolve == Range(MainImports) \subseteq ModuleDefines

\* Names bound in main.py's module scope once its imports are done: the
\* imported names and its own functions.
MainNames ==
    {MainImports[k][2] : k \in DOMAIN MainImports}
        \cup {"setup_logging", "load_config", "get_environment_variables",
              "get_current_datetime", "main"}

ReportTypes == {"functions", "employees", "both"}

\* The failed-item listing of the run log (lines 269-271, 322-324): not
\* written in any run, since log_content is built after generate_pdf_batch
\* has returned.
NoListing == [written |-> FALSE, items |-> {}]

\* What a run of the script did when the process exits: exit status, the
\* exception that ended the work, warehouse queries issued, calls of
\* get_powerbi_access_token, bearer tokens acquired, export tasks handed to
\* generate_pdf_batch's pool, uploads, link generations, notifications, the
\* failed-item listing of the run log.
MainExit(code, exception, queries, auth_calls, tokens, export_tasks) ==
    [exit |-> code, exc |-> exception, queries |-> queries,
     auth_calls |-> auth_calls, tokens |-> tokens,
     export_tasks |-> export_tasks, uploads |-> 0, links |-> 0,
     notifications |-> 0, failed_listing |-> NoListing]

NoRun == MainExit(NotComputed, "none", 0, 0, 0, 0)

\* main(), lines 119-426, in a module whose imports are done. Lines 180-189
\* fetch the function list (a failing query raises, as in get_areas_list);
\* line 194 reads get_specialised_carers_list; lines 209-223 acquire the two
\* tokens; lines 239-248 call generate_pdf_batch, which raises (it always
\* does), so no upload, link generation or notification follows; the handler
\* of lines 424-426 turns every Exception into return 1; a run that skips the
\* functions block falls off the end of main and sys.exit(None) exits with
\* status 0.
MainBody(args, env) ==
    LET fq == IF args.report_type \in {"functions", "both"} THEN 1 ELSE 0 IN
    IF fq = 1 /\ env.warehouse = "raises"
      THEN MainExit(1, "QueryError", 1, 0, 0, 0)
    ELSE IF /\ args.report_type \in {"employees", "both"}
            /\ "get_specialised_carers_list" \notin MainNames
      THEN MainExit(1, "NameError", fq, 0, 0, 0)
    ELSE IF env.powerbi_auth = "raises"
      THEN MainExit(1, "AuthError", fq, 1, 0, 0)
    ELSE IF env.sharepoint_auth = "raises"
      THEN MainExit(1, "AuthError", fq, 1, 1, 0)
    ELSE IF fq = 1 /\ env.functions > 0
      THEN MainExit(1, "TypeError", fq, 1, 2, env.functions)
    ELSE MainExit(0, "none", fq, 1, 2, 0)

\* A script whose imports are taken to succeed and whose upload step runs
\* whatever the --dry-run flag says.
MainScript_UploadsInDryRun(args, env) ==
    [MainBody(args, env) EXCEPT !.uploads = env.functions]

\* python main.py: the import statements of lines 1-31 run first; an
\* ImportError there is not inside any try and ends the process with
\* status 1 before main() is called (line 429).
MainScript(args, env) ==
    IF ~ImportsResolve THEN MainExit(1, "ImportError", 0, 0, 0, 0)
    ELSE MainBody(args, env)

MInit ==
    /\ m_args \in [report_type : ReportTypes, dry_run : BOOLEAN,
                   skip_links : BOOLEAN]
    /\ m_env \in [warehouse : {"ok", "raises"},
                  powerbi_auth : {"ok", "raises"},
                  sharepoint_auth : {"ok", "raises"},
                  functions : 0..MaxFunctions,
                  employees : 0..MaxEmployeeRows]
    /\ m_pc = "start"
    /\ m_run = NoRun

MIdle ==
    /\ m_args = [report_type |-> "both", dry_run |-> FALSE,
                 skip_links |-> FALSE]
    /\ m_env = [warehouse |-> "ok", powerbi_auth |-> "ok",
                sharepoint_auth |-> "ok", functions |-> 0, employees |-> 0]
    /\ m_pc = "idle"
    /\ m_run = NoRun

\* The process from its start to its exit.
MainRun ==
    /\ m_pc = "start"
    /\ m_run' = MainScript(m_args, m_env)
    /\ m_pc' = "exited"
    /\ UNCHANGED <<m_args, m_env>>
    /\ UNCHANGED <<bvars, xvars, lvars, uvars, gvars, nvars, cvars, fvars>>

MNext == MainRun

\* ---------------------------------------------------- send_bcp_notification
\* A fallback test that ignores the use_smtp_fallback switch.
FallbackConfigured_IgnoresSwitch(in) ==
    in.smtp_server /\ in.smtp_port /\ in.smtp_password

\* Line 251: the fallback is enabled and its three settings are truthy.
FallbackConfigured(in) ==
    in.use_smtp_fallback /\ in.smtp_server /\ in.smtp_port /\ in.smtp_password

\* The arguments (smtp_* : whether the setting is truthy) and what the
\* channels do: get_graph_access_token returns or raises, send_email_via_graph
\* and send_email_via_smtp return True or False (both catch every Exception).
NotifyInputs ==
    [graph_token : {"ok", "raises"}, graph_send : BOOLEAN,
     smtp_send : BOOLEAN, use_smtp_fallback : BOOLEAN, smtp_server : BOOLEAN,
     smtp_port : BOOLEAN, smtp_password : BOOLEAN]

NInit ==
    /\ n_in \in NotifyInputs
    /\ n_pc = "start"
    /\ n_token_calls = 0
    /\ n_graph_calls = 0
    /\ n_smtp_calls = 0
    /\ n_delivered = {}
    /\ n_result = "pending"

NIdle ==
    /\ n_in = [graph_token |-> "ok", graph_send |-> TRUE, smtp_send |-> TRUE,
               use_smtp_fallback |-> TRUE, smtp_server |-> FALSE,
               smtp_port |-> FALSE, smtp_password |-> FALSE]
    /\ n_pc = "idle"
    /\ n_token_calls = 0
    /\ n_graph_calls = 0
    /\ n_smtp_calls = 0
    /\ n_delivered = {}
    /\ n_result = "pending"

\* Lines 218-233 and 246-248: subject and body, then get_graph_access_token;
\* an exception is caught and leads to the fallback test.
NotifyToken ==
    /\ n_pc = "start"
    /\ n_token_calls' = n_token_calls + 1
    /\ n_pc' = IF n_in.graph_token = "raises" THEN "fallback" ELSE "graph"
    /\ UNCHANGED <<n_in, n_graph_calls, n_smtp_calls, n_delivered, n_result>>
    /\ UNCHANGED <<bvars, xvars, lvars, uvars, gvars, mvars, cvars, fvars>>

\* Lines 234-244: send_email_via_graph; return True on success.
NotifyGraph ==
    /\ n_pc = "graph"
    /\ n_graph_calls' = n_graph_calls + 1
    /\ IF n_in.graph_send
         THEN /\ n_delivered' = n_delivered \cup {"graph"}
              /\ n_result' = "True"
              /\ n_pc' = "returned"
         ELSE /\ n_pc' = "fallback"
              /\ UNCHANGED <<n_delivered, n_result>>
    /\ UNCHANGED <<n_in, n_token_calls, n_smtp_calls>>
    /\ UNCHANGED <<bvars, xvars, lvars, uvars, gvars, mvars, cvars, fvars>>

\* Lines 251-273: the fallback. Enabled and configured: the result of
\* send_email_via_smtp is returned. Enabled but not configured: an error is
\* logged and the function ends without a return statement (None). Not
\* enabled: return False.
NotifyFallback ==
    /\ n_pc = "fallback"
    /\ IF FallbackConfigured(n_in)
         THEN /\ n_smtp_calls' = n_smtp_calls + 1
              /\ n_delivered' = IF n_in.smtp_send
                                  THEN n_delivered \cup {"smtp"}
                                  ELSE n_delivered
              /\ n_result' = IF n_in.smtp_send THEN "True" ELSE "False"
         ELSE /\ n_result' = IF n_in.use_smtp_fallback THEN "None" ELSE "False"
              /\ UNCHANGED <<n_smtp_calls, n_delivered>>
    /\ n_pc' = "returned"
    /\ UNCHANGED <<n_in, n_token_calls, n_graph_calls>>
    /\ UNCHANGED <<bvars, xvars, lvars, uvars, gvars, mvars, cvars, fvars>>

NNext ==
    \/ NotifyToken
    \/ NotifyGraph
    \/ NotifyFallback

\* ------------------- upload_csv_to_sharepoint and upload_log_to_sharepoint
MaxTextRetries == 3

\* Answers to the PUT: a status code, or "exc" when the request raises.
TextPutAnswers == {"200", "201", "424", "429", "500", "exc"}

\* A fixed wait of one second in place of 2 ** attempt.
TextWaitTime_Fixed(attempt) == 1

\* Lines 207, 217, 226 (270, 280, 289): wait_time = 2 ** attempt.
TextWaitTime(attempt) == Pow2(attempt)

\* Lines 206, 216, 225 (269, 279, 288): attempt < max_retries - 1.
MoreAttempts(attempt, maxr) == attempt < maxr - 1

CInit ==
    /\ c_kind \in {"csv", "log"}
    /\ c_max_retries \in 0..MaxTextRetries
    /\ c_attempt = 0
    /\ c_pc = "loop"
    /\ c_resp = <<>>
    /\ c_sleeps = <<>>
    /\ c_result = "pending"

CIdle ==
    /\ c_kind = "csv"
    /\ c_max_retries = 0
    /\ c_attempt = 0
    /\ c_pc = "idle"
    /\ c_resp = <<>>
    /\ c_sleeps = <<>>
    /\ c_result = "pending"

\* After an attempt that did not succeed: sleep and go to the next attempt,
\* or return False from the last one.
TextRetryOrFail ==
    IF MoreAttempts(c_attempt, c_max_retries)
      THEN /\ c_sleeps' = Append(c_sleeps, TextWaitTime(c_attempt))
           /\ c_attempt' = c_attempt + 1
           /\ UNCHANGED <<c_pc, c_result>>
      ELSE /\ c_result' = "False"
           /\ c_pc' = "returned"
           /\ UNCHANGED <<c_sleeps, c_attempt>>

\* Lines 199-230 (262-293): one iteration of for attempt in
\* range(max_retries): the PUT and the handling of its answer. The branches
\* for 424, for any other status and for an exception all retry or fail.
TextPut(code) ==
    /\ c_pc = "loop"
    /\ c_attempt < c_max_retries
    /\ c_resp' = Append(c_resp, code)
    /\ IF code \in {"200", "201"}
         THEN /\ c_result' = "True"
              /\ c_pc' = "returned"
              /\ UNCHANGED <<c_sleeps, c_attempt>>
       ELSE IF code = "424" THEN TextRetryOrFail
       ELSE IF code = "exc" THEN TextRetryOrFail
       ELSE TextRetryOrFail
    /\ UNCHANGED <<c_kind, c_max_retries>>
    /\ UNCHANGED <<bvars, xvars, lvars, uvars, gvars, mvars, nvars, fvars>>

\* Line 233 (296): the loop ran out of iterations, return False.
TextLoopEnd ==
    /\ c_pc = "loop"
    /\ ~(c_attempt < c_max_retries)
    /\ c_result' = "False"
    /\ c_pc' = "returned"
    /\ UNCHANGED <<c_kind, c_max_retries, c_attempt, c_resp, c_sleeps>>
    /\ UNCHANGED <<bvars, xvars, lvars, uvars, gvars, mvars, nvars, fvars>>

CNext ==
    \/ \E code \in TextPutAnswers : TextPut(code)
    \/ TextLoopEnd

\* ----------------------------------------------------- ensure_folder_exists
MaxDepth == 3

\* How a GET of a path is answered: by the drive ("drive": 200 when the
\* path exists, 404 when not), with another non-200 status ("error"), or
\* the request raises ("exc").
FolderGetAnswers == {"drive", "error", "exc"}

\* How a create request (POST .../children) is answered.
FolderCreateAnswers == {"ok", "fail", "exc"}

\* The GET of a level is answered 200.
Get200(store, level, answer) == answer = "drive" /\ level \in store

\* Line 122: the guard of the create request inside the loop,
\* if response.status_code == 200.
CreateWanted(store, level, answer) == Get200(store, level, answer)

\* The path levels of the drive after a successful create request for a
\* level, sent with conflictBehavior "rename": a level that exists stays and
\* the new folder gets another name.
StoreAfterCreate(store, level) ==
    IF level \in store THEN store ELSE store \cup {level}

FInit ==
    /\ f_depth \in 0..MaxDepth
    /\ \E e \in 0..f_depth : f_store = 1..e
    /\ f_pc = "check"
    /\ f_level = 0
    /\ f_creates = <<>>
    /\ f_renamed = 0
    /\ f_result = "pending"

FIdle ==
    /\ f_depth = 0
    /\ f_store = {}
    /\ f_pc = "idle"
    /\ f_level = 0
    /\ f_creates = <<>>
    /\ f_renamed = 0
    /\ f_result = "pending"

FolderReturn(result) ==
    /\ f_result' = result
    /\ f_pc' = "returned"

\* Lines 96-98: an empty folder path.
FolderEmptyPath ==
    /\ f_pc = "check"
    /\ f_depth = 0
    /\ FolderReturn("True")
    /\ UNCHANGED <<f_depth, f_store, f_level, f_creates, f_renamed>>
    /\ UNCHANGED <<bvars, xvars, lvars, uvars, gvars, mvars, nvars, cvars>>

\* Lines 100-110: the GET of the whole path.
FolderCheck(answer) ==
    /\ f_pc = "check"
    /\ f_depth > 0
    /\ IF answer = "exc"
         THEN FolderReturn("False") /\ f_level' = f_level
       ELSE IF Get200(f_store, f_depth, answer)
         THEN FolderReturn("True") /\ f_level' = f_level
       ELSE /\ f_pc' = "loop"
            /\ f_level' = 1
            /\ f_result' = f_result
    /\ UNCHANGED <<f_depth, f_store, f_creates, f_renamed>>
    /\ UNCHANGED <<bvars, xvars, lvars, uvars, gvars, mvars, nvars, cvars>>

\* Lines 112-139: one iteration of the loop over the levels: the GET of the
\* level, and under the guard of line 122 the create request.
FolderLevel(answer, create) ==
    /\ f_pc = "loop"
    /\ f_level <= f_depth
    /\ IF answer = "exc"
         THEN /\ FolderReturn("False")
              /\ UNCHANGED <<f_store, f_level, f_creates, f_renamed>>
       ELSE IF CreateWanted(f_store, f_level, answer)
         THEN /\ f_creates' = Append(f_creates, f_level)
              /\ IF create = "ok"
                   THEN /\ f_store' = StoreAfterCreate(f_store, f_level)
                        /\ f_renamed' = IF f_level \in f_store
                                          THEN f_renamed + 1
                                          ELSE f_renamed
                        /\ f_level' = f_level + 1
                        /\ UNCHANGED <<f_pc, f_result>>
                   ELSE /\ FolderReturn("False")
                        /\ UNCHANGED <<f_store, f_level, f_renamed>>
       ELSE /\ f_level' = f_level + 1
            /\ UNCHANGED <<f_pc, f_result, f_store, f_creates, f_renamed>>
    /\ UNCHANGED f_depth
    /\ UNCHANGED <<bvars, xvars, lvars, uvars, gvars, mvars, nvars, cvars>>

\* Lines 141-142: the loop is over, return True.
FolderDone ==
    /\ f_pc = "loop"
    /\ f_level > f_depth
    /\ FolderReturn("True")
    /\ UNCHANGED <<f_depth, f_store, f_level, f_creates, f_renamed>>
    /\ UNCHANGED <<bvars, xvars, lvars, uvars, gvars, mvars, nvars, cvars>>

FNext ==
    \/ FolderEmptyPath
    \/ \E answer \in FolderGetAnswers : FolderCheck(answer)
    \/ \E answer \in FolderGetAnswers, create \in FolderCreateAnswers :
          FolderLevel(answer, create)
    \/ FolderDone

\* ------------------------------------------------------- the specifications
Init == BInit /\ XIdle /\ LIdle /\ UIdle /\ GIdle /\ MIdle /\ NIdle
    /\ CIdle /\ FIdle

Next == BNext

\* generate_pdf_batch
Spec == Init /\ [][Next]_vars

InitExport == XInit /\ BIdle /\ LIdle /\ UIdle /\ GIdle /\ MIdle /\ NIdle
    /\ CIdle /\ FIdle

NextExport == XNext

\* export_report_to_pdf
SpecExport == InitExport /\ [][NextExport]_vars

InitLink == LInit /\ BIdle /\ XIdle /\ UIdle /\ GIdle /\ MIdle /\ NIdle
    /\ CIdle /\ FIdle

NextLink == LNext

\* generate_single_employee_link
SpecLink == InitLink /\ [][NextLink]_vars

InitUpload == UInit /\ BIdle /\ XIdle /\ LIdle /\ GIdle /\ MIdle /\ NIdle
    /\ CIdle /\ FIdle

NextUpload == UNext

\* upload_pdfs_batch
SpecUpload == InitUpload /\ [][NextUpload]_vars

InitLinks == GInit /\ BIdle /\ XIdle /\ LIdle /\ UIdle /\ MIdle /\ NIdle
    /\ CIdle /\ FIdle

NextLinks == GNext

\* generate_employee_links
SpecLinks == InitLinks /\ [][NextLinks]_vars

InitMain == MInit /\ BIdle /\ XIdle /\ LIdle /\ UIdle /\ GIdle /\ NIdle
    /\ CIdle /\ FIdle

NextMain == MNext

\* main.py
SpecMain == InitMain /\ [][NextMain]_vars

InitNotify == NInit /\ BIdle /\ XIdle /\ LIdle /\ UIdle /\ GIdle /\ MIdle
    /\ CIdle /\ FIdle

NextNotify == NNext

\* send_bcp_notification
SpecNotify == InitNotify /\ [][NextNotify]_vars

InitText == CInit /\ BIdle /\ XIdle /\ LIdle /\ UIdle /\ GIdle /\ MIdle
    /\ NIdle /\ FIdle

NextText == CNext

\* upload_csv_to_sharepoint, upload_log_to_sharepoint
SpecText == InitText /\ [][NextText]_vars

InitFolder == FInit /\ BIdle /\ XIdle /\ LIdle /\ UIdle /\ GIdle /\ MIdle
    /\ NIdle /\ CIdle

NextFolder == FNext

\* ensure_folder_exists
SpecFolder == InitFolder /\ [][NextFolder]_vars

InitCollectors ==
    /\ \/ BInit /\ UIdle
       \/ BIdle /\ UInit
    /\ XIdle /\ LIdle /\ GIdle /\ MIdle /\ NIdle /\ CIdle /\ FIdle

NextCollectors == BNext \/ UNext

\* generate_pdf_batch or upload_pdfs_batch: the two functions that collect
\* the results of a pool
SpecCollectors == InitCollectors /\ [][NextCollectors]_vars

\* ------------------------------------------------------------------ claims
Ended == pc \in {"returned", "raised"}

FailedSet == Range(failed_items)

\* C1: once generate_pdf_batch has finished its final pass, every input item
\* is in exactly one of the succeeded map (keys of pdf_dict) and the failed
\* list: succeeded \cup failed = input items, succeeded \cap failed = {}.
C1_FinishedWithPartition ==
    Ended => /\ pc = "returned"
             /\ pdf_dict \cup FailedSet = Range(values)
             /\ pdf_dict \cap FailedSet = {}

\* C2: an item whose export fails in the first pass and succeeds on a retry
\* pass k, 1 <= k <= max_retries (the remote serves it from pass k + 1 on),
\* is absent from the final failed list and a key of the succeeded map.
C2_RetrySuccessRecorded ==
    \A i \in Futures :
        (Ended /\ remote[values[i]] >= 2 /\ remote[values[i]] <= max_retries + 1)
            => (values[i] \in pdf_dict /\ values[i] \notin FailedSet)

\* C3: with max_retries = 3 and a remote export that never succeeds (every
\* status poll answers "Running"), the run ends with the item in the failed
\* set after exactly max_retries + 1 = 4 passes over it.
C3_FourPassesThenFailed ==
    \A i \in Futures :
        (Ended /\ max_retries = 3 /\ remote[values[i]] = 0)
            => (passes = 4 /\ values[i] \in FailedSet /\ values[i] \notin pdf_dict)

\* C7: during the first pass the number of exports concurrently in flight
\* (tasks a pool thread is running) never exceeds batch_size.
C7_InFlightBounded == Cardinality(Running) <= batch_size

\* The pool is saturated: batch_size tasks run while another one waits.
C7_Witness ==
    /\ passes = 1
    /\ Cardinality(Running) = batch_size
    /\ Queued # {}

\* C9: whenever a retry pass starts, the pool size computed for it
\* (retry_batch_size) is at least 1.
C9_RetryPoolSizePositive ==
    retry_batch_size # NotComputed => retry_batch_size >= 1

\* C10: generate_pdf_batch stops as soon as the failed set is empty or the
\* retry-pass counter exceeds max_retries, and every item still failing then
\* is in the failed list it reports.
C10_StopsAndReports ==
    Ended => /\ (failed_items = <<>> \/ retry_attempt > max_retries)
             /\ summary.reported
             /\ summary.items = failed_items

C5_ThreePollsThenArtifact ==
    (/\ x_pc = "returned"
     /\ x_script.submit = 200
     /\ x_script.has_id
     /\ x_script.statuses = <<"Running", "Running", "Succeeded">>
     /\ x_script.file = 200
     /\ x_script.cap = ExportPollCap)
        => (x_polls = 3 /\ x_downloads = 1 /\ x_result = "pdf")

\* Every attempt of the link generation (one file lookup each) ended in a 429.
EveryAttemptThrottled ==
    Cardinality({k \in DOMAIN l_resp : l_resp[k] = "429"}) = l_lookups

\* C6: when every attempt is answered 429 and max_retries = n, the function
\* sleeps exactly n times, for 1, 2, 4, ..., 2^(n-1) seconds in that order,
\* and then returns a Failed record with link 'Throttled' and flag False.
C6_BackoffThenThrottled ==
    (l_pc = "returned" /\ EveryAttemptThrottled)
        => /\ Len(l_sleeps) = l_max_retries
           /\ \A k \in DOMAIN l_sleeps :
                 l_sleeps[k] = IF k = 1 THEN 1 ELSE 2 * l_sleeps[k - 1]
           /\ l_record.sharepoint_link = "Throttled"
           /\ l_record.status = "Failed"
           /\ ~l_success

\* Three waits, 1 s, 2 s and 4 s, then the Throttled record.
C6_Witness ==
    /\ l_pc = "returned"
    /\ EveryAttemptThrottled
    /\ l_max_retries = 3
    /\ l_sleeps = <<1, 2, 4>>
    /\ l_record.sharepoint_link = "Throttled"

\* C8: when every upload of upload_pdfs_batch succeeds, every identifier got
\* exactly one PUT, no two identifiers were written to the same remote path,
\* and the store holds one object per identifier.
C8_OneObjectPerItem ==
    (u_pc = "returned" /\ \A id \in u_ids : u_fut[id] = "true")
        => /\ \A id \in u_ids : u_puts[id] = 1
           /\ \A id1, id2 \in u_ids :
                 id1 # id2 => UploadPath(id1, u_create_folder)
                                 # UploadPath(id2, u_create_folder)
           /\ Cardinality(u_store) = Cardinality(u_ids)

\* ---------------------------------------------------------- claims C11-C20
\* C11: the failed export of one item is contained: the item is recorded in
\* the failed list, the other items of the pass are still collected, and
\* generate_pdf_batch raises no exception on the path it takes for the failed
\* items (the retry of line 137).
C11_ItemFailureContained ==
    \A i \in Futures :
        (i \in collected /\ fut[i] # "ok")
            => /\ values[i] \in FailedSet
               /\ (pc = "retry_check" => collected = Futures)
               /\ ~(pc = "raised" /\ slept > 0)

\* The succeeded set the inputs determine: the items whose export succeeds.
ExpectedSucceeded == {values[i] : i \in {j \in Futures : WorkerOutcome(j) = "ok"}}

\* C12: the succeeded set and the failed set a run ends with are determined
\* by the inputs (items and remote responses) alone, whatever the order in
\* which the workers complete and their futures are collected.
C12_OutcomeSetsOrderIndependent ==
    Ended => /\ pdf_dict = ExpectedSucceeded
             /\ FailedSet = Range(values) \ ExpectedSucceeded

\* A run that collected its two items against the submission order.
C12_Witness ==
    /\ Ended
    /\ Len(values) = 2
    /\ failed_items = <<2, 1>>

\* C13: at the end of the run the failed list holds no identifier twice and
\* the failed_count reported is the number of distinct failing identifiers.
C13_FailedCountedOnce ==
    Ended => /\ \A j, k \in DOMAIN failed_items :
                   failed_items[j] = failed_items[k] => j = k
             /\ summary.reported
             /\ summary.failed = Cardinality(FailedSet)

\* C14: every run reaches the summary and reports the total (len(values)),
\* the size of the succeeded map, the number of failed items and the failing
\* identifiers.
C14_SummaryReported ==
    Ended => /\ summary.reported
             /\ summary.total = Len(values)
             /\ summary.success = Cardinality(pdf_dict)
             /\ summary.failed = Len(failed_items)
             /\ summary.items = failed_items

\* C15: generate_pdf_batch ends by handing its caller the pair (succeeded
\* map, failed list).
C15_HandsBackPair ==
    Ended => /\ pc = "returned"
             /\ BatchReturnValue = "pair"

C17_OneUploadAndPartition ==
    /\ \A id \in u_ids : u_puts[id] <= 1
    /\ u_pc = "returned"
          => /\ Range(successful) \cup Range(failed) = u_ids
             /\ Range(successful) \cap Range(failed) = {}
             /\ Len(successful) + Len(failed) = Cardinality(u_ids)
             /\ u_queue = <<>>

\* Both lists are used: one upload succeeded and one failed.
C17_Witness ==
    /\ u_pc = "returned"
    /\ successful # <<>>
    /\ failed # <<>>

\* The records of employee e in a list of records.
RecordsOf(records, e) == {k \in DOMAIN records : records[k].employee = e}

\* C18: generate_single_employee_link is called once per employee (a
\* throttled employee is not resubmitted), and on return every employee has
\* exactly one record, in exactly one of success_records and failed_records;
\* the record of an employee whose call ended throttled is in failed_records.
C18_ThrottledRecordedOnce ==
    /\ \A e \in Employees : g_calls[e] <= 1
    /\ g_pc = "returned"
          => \A e \in Employees :
                /\ g_calls[e] = 1
                /\ Cardinality(RecordsOf(success_records, e))
                      + Cardinality(RecordsOf(failed_records, e)) = 1
                /\ g_fut[e] = "Throttled"
                      => \E k \in RecordsOf(failed_records, e) :
                            /\ failed_records[k].sharepoint_link = "Throttled"
                            /\ failed_records[k].status = "Failed"

\* One employee ended throttled while another got its link.
C18_Witness ==
    /\ g_pc = "returned"
    /\ \E e \in Employees : g_fut[e] = "Throttled"
    /\ success_records # <<>>

\* The last answer seen is a lookup answer that is neither 200 nor 429.
LookupRefused ==
    /\ l_resp # <<>>
    /\ l_resp[Len(l_resp)] \in {"404", "403"}

\* C19: a lookup answered neither 200 nor 429 ends the call at once: the
\* function returns False with status 'Failed' and link 'File Not Found',
\* sends no createLink request for that lookup and waits for no retry.
C19_FileNotFound ==
    LookupRefused
        => /\ l_pc = "returned"
           /\ ~l_success
           /\ l_record.status = "Failed"
           /\ l_record.sharepoint_link = "File Not Found"
           /\ Len(l_resp) = 1 => (l_links = 0 /\ l_sleeps = <<>> /\ l_lookups = 1)
           /\ Len(l_sleeps)
                 = Cardinality({k \in DOMAIN l_resp : l_resp[k] = "429"})

\* The first lookup is answered 404.
C19_Witness ==
    /\ l_pc = "returned"
    /\ l_resp = <<"404">>
    /\ l_record.sharepoint_link = "File Not Found"

\* C20: when the lookup is answered 200 and createLink 200 or 201, the
\* function returns True with status 'Success' and the webUrl of the
\* createLink response as sharepoint_link; without throttling that is after
\* exactly one lookup and one createLink request.
C20_LinkCreated ==
    (/\ l_pc = "returned"
     /\ l_resp # <<>>
     /\ l_resp[Len(l_resp)] \in {"200", "201"})
        => /\ l_success
           /\ l_record.status = "Success"
           /\ l_url \in WebUrls
           /\ l_record.sharepoint_link = l_url
           /\ l_sleeps = <<>> => (l_lookups = 1 /\ l_links = 1)

\* Lookup 200, createLink 201, link returned.
C20_Witness ==
    /\ l_pc = "returned"
    /\ l_resp = <<"200", "201">>
    /\ l_success
    /\ l_record.sharepoint_link = "https://sp/u2"

\* ---------------------------------------------------------- claims C21-C30
\* The primary channel failed: the token request raised or the Graph send
\* returned False.
PrimaryFailed == n_in.graph_token = "raises" \/ ~n_in.graph_send

\* C21: on return, SMTP was attempted (once) exactly when the primary channel
\* failed and the fallback is enabled and configured; it was not attempted
\* when the primary channel succeeded; at most one channel delivered the
\* message; and the result is True exactly when a channel delivered it.
C21_FallbackExactlyOnPrimaryFailure ==
    /\ n_smtp_calls <= 1
    /\ Cardinality(n_delivered) <= 1
    /\ n_pc = "returned"
          => /\ n_smtp_calls = 1
                   <=> (PrimaryFailed /\ n_in.use_smtp_fallback
                        /\ n_in.smtp_server /\ n_in.smtp_port
                        /\ n_in.smtp_password)
             /\ ~PrimaryFailed => n_smtp_calls = 0
             /\ n_result = "True" <=> Cardinality(n_delivered) = 1

\* The Graph send failed and the SMTP fallback delivered the message.
C21_Witness ==
    /\ n_pc = "returned"
    /\ n_graph_calls = 1
    /\ n_smtp_calls = 1
    /\ n_delivered = {"smtp"}
    /\ n_result = "True"

\* C22: when the warehouse query for the function or employee list fails,
\* main has issued the query, ends with exit code 1, and no token request,
\* export, upload, link generation or notification follows.
C22_WarehouseFailureFatal ==
    (m_pc = "exited" /\ m_env.warehouse = "raises")
        => /\ m_run.queries >= 1
           /\ m_run.exit = 1
           /\ m_run.auth_calls = 0
           /\ m_run.export_tasks = 0
           /\ m_run.uploads = 0
           /\ m_run.links = 0
           /\ m_run.notifications = 0

Accepted == x_script.submit = 200 /\ x_script.has_id

\* The k-th poll leaves the job in Polling.
Waiting(k) == PollAnswer(x_script, k) \in {"Running", "NotStarted"}

\* The first poll, within the cap, whose answer is not Running/NotStarted;
\* 0 when there is none.
DecisivePoll ==
    IF \E k \in 1..x_script.cap : ~Waiting(k)
      THEN CHOOSE k \in 1..x_script.cap :
               ~Waiting(k) /\ \A j \in 1..(k - 1) : Waiting(j)
      ELSE 0

C31_OnlyCollectorWrites ==
    /\ pdf_dict \cup FailedSet = {values[i] : i \in collected}
    /\ Cardinality(pdf_dict) + Len(failed_items) = Cardinality(collected)
    /\ Range(successful) \cup Range(failed) = u_collected
    /\ Len(successful) + Len(failed) = Cardinality(u_collected)

\* A worker has finished while the collector has drained another future
\* only: the finished one is not in the collections yet.
C31_Witness ==
    \E i, j \in Futures :
        /\ i \in collected
        /\ j \notin collected
        /\ Finished(fut[j])
        /\ failed_items = <<values[i]>>

\* C32: the failed-item listing main writes to the run log is the set of
\* input items whose identity is not a key of the succeeded map (here: a run
\* over a non-empty function list writes the listing, and it holds the
\* functions that did not succeed, which are all of them).
C32_FailedListingByIdentity ==
    (/\ m_pc = "exited"
     /\ m_args.report_type \in {"functions", "both"}
     /\ m_env.functions > 0)
        => /\ m_run.failed_listing.written
           /\ m_run.failed_listing.items = 1..m_env.functions

\* C33: with --report-type employees or both and a non-empty employee list
\* the employee generation step runs (export tasks are handed to the pool)
\* and main ends with exit code 0.
C33_EmployeeStepRuns ==
    (/\ m_pc = "exited"
     /\ m_args.report_type \in {"employees", "both"}
     /\ m_env.employees > 0)
        => /\ m_run.export_tasks > 0
           /\ m_run.exit = 0

C35_RetryCollectsOnce ==
    (Ended /\ slept > 0)
        => /\ passes >= 2
           /\ Cardinality(pdf_dict) + Len(failed_items) <= Len(values)
           /\ \A j, k \in DOMAIN failed_items :
                 failed_items[j] = failed_items[k] => j = k

C37_BoundedRemoteCalls ==
    /\ l_retry_count = Len(l_sleeps)
    /\ Len(l_sleeps) <= l_max_retries
    /\ l_lookups <= l_max_retries + 1
    /\ l_links <= l_max_retries + 1
    /\ Len(l_resp) = l_lookups + l_links
    /\ \A k \in DOMAIN l_sleeps : l_sleeps[k] = Pow2(k - 1)

\* Three waits shared by the two calls: the createLink request was throttled
\* at least once, the lookup was made four times.
C37_Witness ==
    /\ l_pc = "returned"
    /\ l_max_retries = 3
    /\ l_sleeps = <<1, 2, 4>>
    /\ l_lookups = 4
    /\ l_links >= 2

\* An answer to a PUT that is a success.
TextPutOk(code) == code \in {"200", "201"}

\* C38: at most max_retries PUTs are issued; the result is True exactly when
\* the last PUT issued was answered 200 or 201, and no PUT follows such an
\* answer; the wait after failed attempt a (0-based, not the last) is 2^a
\* seconds, and after the last failed attempt False is returned without a
\* wait.
C38_BoundedAttemptsWithBackoff ==
    /\ Len(c_resp) <= c_max_retries
    /\ \A k \in DOMAIN c_resp : k < Len(c_resp) => ~TextPutOk(c_resp[k])
    /\ \A k \in DOMAIN c_sleeps : c_sleeps[k] = Pow2(k - 1)
    /\ Len(c_sleeps)
          = Cardinality({k \in DOMAIN c_resp :
                            ~TextPutOk(c_resp[k]) /\ k < c_max_retries})
    /\ c_pc = "returned"
          => /\ c_result = "True"
                   <=> (c_resp # <<>> /\ TextPutOk(c_resp[Len(c_resp)]))
             /\ c_result = "False"
                   => (Len(c_resp) = c_max_retries
                       /\ Len(c_sleeps) = IF c_max_retries = 0 THEN 0
                                          ELSE c_max_retries - 1)

\* Two failed attempts, waits of 1 s and 2 s, success on the third.
C38_Witness ==
    /\ c_pc = "returned"
    /\ c_max_retries = 3
    /\ c_resp = <<"424", "500", "201">>
    /\ c_sleeps = <<1, 2>>
    /\ c_result = "True"

\* C39: when ensure_folder_exists returns True for a non-empty path, every
\* level of the path exists in the drive, and no create request was sent for
\* a level that existed already.
C39_FolderLevelsExist ==
    (f_pc = "returned" /\ f_result = "True" /\ f_depth > 0)
        => /\ \A k \in 1..f_depth : k \in f_store
           /\ f_renamed = 0

====
